---------------------------- MODULE Spec2Model ----------------------------
(***************************************************************************)
(* sale-radar: the geo-filter front-end (two variants of run()) and the    *)
(* sale-discovery batch job fetchSales.mjs (multi-point and single-centre  *)
(* variants).                                                              *)
(*                                                                         *)
(* Numbers.  The JavaScript code computes in IEEE doubles.  The model      *)
(* computes the same formulas in fixed point:                              *)
(*   - a coordinate is an integer count of 1/DegScale degrees,             *)
(*   - an angle in radians, and the sine of a small angle, is an integer   *)
(*     count of 1/RadScale,                                                *)
(*   - a cosine is an integer count of 1/CosScale,                         *)
(*   - a distance is an integer count of metres.                           *)
(* Every rounding truncates toward zero, so, as in IEEE arithmetic, the    *)
(* rounding of -x is minus the rounding of x.  The half-angles handed to   *)
(* sin are bounded by MaxHalfAngle (about 1.3 degrees of difference), the  *)
(* window in which every intermediate value fits a 32-bit integer.         *)
(***************************************************************************)
EXTENDS Integers, Sequences, FiniteSets

\* --------------------------------------------------------------------------
\* Fixed-point representation of the doubles
\* --------------------------------------------------------------------------
DegScale == 10000
RadScale == 4000000
CosScale == 10000
\* the largest half-angle whose square fits an integer
MaxHalfAngle == 46340

Abs(x) == IF x < 0 THEN -x ELSE x

Sgn(x) == IF x < 0 THEN -1 ELSE 1

\* a*b/c truncated toward zero, computed without a product above 2^31
\* (needs Abs(b)*c < 2^31).
MulDiv(a, b, c) ==
  LET m == Abs(a)
      n == Abs(b)
  IN  Sgn(a) * Sgn(b) * ((m \div c) * n + ((m % c) * n) \div c)

\* --------------------------------------------------------------------------
\* tiny helpers (src/unnamed/part_000 1-15, src/app.js 1-16)
\* --------------------------------------------------------------------------
R == 6371000

\* Math.PI, as the fraction 355/113
PiNum == 355
PiDen == 113

\* toRad = d => d * Math.PI / 180, from coordinate units to angle units:
\* d/DegScale * PiNum/PiDen / 180 * RadScale = d * 7100 / 1017.
toRad(d) == MulDiv(d, PiNum * 20, PiDen * 9)

\* the inverse conversion "* 180 / Math.PI" of boundingBox
toDeg(x) == MulDiv(x, PiDen * 9, PiNum * 20)

\* product of two CosScale fixed-point numbers
CMul(a, b) == MulDiv(a, b, CosScale)

\* Math.cos for |x| <= pi/2 (x in angle units), Taylor series to x^10
cos(x) ==
  LET y  == Abs(x) \div (RadScale \div CosScale)
      y2 == CMul(y, y)
      y4 == CMul(y2, y2)
      y6 == CMul(y4, y2)
      y8 == CMul(y4, y4)
      y10 == CMul(y8, y2)
  IN  CosScale - y2 \div 2 + y4 \div 24 - y6 \div 720 + y8 \div 40320
        - y10 \div 3628800

\* Math.sin for a small angle (|x| <= MaxHalfAngle), x - x^3/6
sin(x) ==
  LET m  == Abs(x)
      m2 == (m * m) \div RadScale
      m3 == (m2 * m) \div RadScale
  IN  Sgn(x) * (m - m3 \div 6)

\* Math.asin for a small argument, y + y^3/6
asin(y) ==
  LET m  == Abs(y)
      m2 == (m * m) \div RadScale
      m3 == (m2 * m) \div RadScale
  IN  Sgn(y) * (m + m3 \div 6)

\* largest s in lo..hi with s*s <= n
RECURSIVE SqrtIn(_, _, _)
SqrtIn(n, lo, hi) ==
  IF lo >= hi THEN lo
  ELSE LET mid == (lo + hi + 1) \div 2
       IN  IF mid * mid <= n THEN SqrtIn(n, mid, hi) ELSE SqrtIn(n, lo, mid - 1)

\* Math.sqrt of a value in units of 1/RadScale^2, result in units of 1/RadScale
sqrt(n) == SqrtIn(n, 0, MaxHalfAngle)

\* x / 2
Half(x) == Sgn(x) * (Abs(x) \div 2)

\* x ** 2
Sq(x) == x * x

boundingBox(lat, lon, r) ==
  LET dLat == toDeg(MulDiv(r, RadScale \div 1000, R \div 1000))
      dLon == MulDiv(dLat, CosScale, cos(toRad(lat)))
  IN  [latMin |-> lat - dLat, latMax |-> lat + dLat,
       lonMin |-> lon - dLon, lonMax |-> lon + dLon]

\* haversine with the cosine of the first latitude taken twice
haversineOneLat(lat1, lon1, lat2, lon2) ==
  LET dLat == toRad(lat2 - lat1)
      dLon == toRad(lon2 - lon1)
      a    == Sq(sin(Half(dLat)))
              + MulDiv(Sq(sin(Half(dLon))),
                       CMul(cos(toRad(lat1)), cos(toRad(lat1))), CosScale)
  IN  MulDiv(asin(sqrt(a)), (2 * R) \div 1000, RadScale \div 1000)

haversine(lat1, lon1, lat2, lon2) ==
  LET dLat == toRad(lat2 - lat1)
      dLon == toRad(lon2 - lon1)
      a    == Sq(sin(Half(dLat)))
              + MulDiv(Sq(sin(Half(dLon))),
                       CMul(cos(toRad(lat1)), cos(toRad(lat2))), CosScale)
  IN  MulDiv(asin(sqrt(a)), (2 * R) \div 1000, RadScale \div 1000)


\* ==========================================================================
\* State
\* ==========================================================================
VARIABLES
  \* --- haversine applied to a pair of points ---
  ptA, ptB,      \* the two coordinate pairs <<lat, lon>>
  gpc,           \* "input" | "measured"
  dAB, dBA, dAA, \* haversine(a,b), haversine(b,a), haversine(a,a)
  \* --- front-end run() ---
  variant,       \* "filter" (src/unnamed/part_000) | "all" (src/app.js 19-89)
  fpc,           \* "start" | "fetchFailed" | "locating" | "noLocation" |
                 \* "mapLoading" | "rendered"
  geojson,       \* features of stores.geojson, each [coordinates |-> <<lng, lt>>]
  viewer,        \* <<>> or <<lat, lon>> from the location callback
  mapCreated,    \* new maplibregl.Map(...) was called
  viewerMarker,  \* <<>> or the <<lon, lat>> of the "You are here" marker
  cards,         \* features appended to #list, in order
  markers,       \* coordinates of the store markers added to the map
  alerted,       \* the fallback alert was shown
  \* --- batch job fetchSales.mjs ---
  job,           \* "multi" (src/unnamed/part_001) | "single" (src/app.js 142-279)
  pc,            \* "collect" | "awaitPlaces" | "analyse" | "awaitAnalyze" |
                 \* "awaitWrite" | "done" | "aborted" | "writeFailed"
  ci,            \* index of the next query centre
  queries,       \* number of places queries issued
  byId,          \* the Map id -> place, as the sequence of its values in
                 \* insertion order
  places,        \* the single-centre job's places list
  idx,           \* position of the analysis loop in the store list
  features,      \* features pushed so far
  calls,         \* classification calls issued: [store, url, result]
  inflight,      \* number of outstanding external calls
  writes,        \* number of fs.writeFile calls issued
  file,          \* stores.geojson on disk: [state, features]
  httpFailed,    \* history: some places query got a non-OK response
  firstSeen,     \* history: id -> first place object returned with that id
  shadowed,      \* history: a later, different object with a known id was returned
  anonSeen       \* history: a place with a website but no id was returned

geoVars   == <<ptA, ptB, gpc, dAB, dBA, dAA>>
frontVars == <<variant, fpc, geojson, viewer, mapCreated, viewerMarker, cards,
               markers, alerted>>
batchVars == <<job, pc, ci, queries, byId, places, idx, features,
               calls, inflight, writes, file, httpFailed, firstSeen, shadowed,
               anonSeen>>
vars      == <<geoVars, frontVars, batchVars>>

\* ==========================================================================
\* haversine as a pure function
\* ==========================================================================
\* the largest coordinate difference (in 1/DegScale degrees) of a pair
MaxSpan == 9000

GeoPoints ==
  ({601700, 601705, 602150, 603000} \X {249400, 249405, 255000})
    \cup ({-50, 0, 40} \X {-30, 0, 70})
    \cup ({-334500, -334000} \X {-706600, -706000})

InWindow(a, b) == Abs(a[1] - b[1]) <= MaxSpan /\ Abs(a[2] - b[2]) <= MaxSpan

GeoIdle ==
  /\ ptA = <<0, 0>> /\ ptB = <<0, 0>> /\ gpc = "idle"
  /\ dAB = 0 /\ dBA = 0 /\ dAA = 0

InitGeo ==
  /\ ptA \in GeoPoints /\ ptB \in GeoPoints
  /\ InWindow(ptA, ptB)
  /\ gpc = "input"
  /\ dAB = 0 /\ dBA = 0 /\ dAA = 0

Measure ==
  /\ gpc = "input"
  /\ dAB' = haversine(ptA[1], ptA[2], ptB[1], ptB[2])
  /\ dBA' = haversine(ptB[1], ptB[2], ptA[1], ptA[2])
  /\ dAA' = haversine(ptA[1], ptA[2], ptA[1], ptA[2])
  /\ gpc' = "measured"
  /\ UNCHANGED <<ptA, ptB>>
  /\ UNCHANGED <<frontVars, batchVars>>

\* ==========================================================================
\* Front-end run()
\* ==========================================================================
\* the most features in stores.geojson
MaxFeatures == 2

\* boundingBox's default r (part_000 line 5) and the literal of line 59
DefaultRadius == 500
FilterRadius == 10000

Viewers == {<<601700, 249400>>, <<602150, 249400>>}

\* <<lng, lt>> of candidate features: next to the first viewer, far away,
\* 5 km north of it, at it, in a corner of its 10 km box, and 556 m north of
\* it (just outside its 500 m box)
FeatureCoords ==
  {<<249405, 601705>>, <<255000, 603000>>, <<249400, 602150>>,
   <<249400, 601700>>, <<251000, 602500>>, <<249400, 601750>>}

Features == {[coordinates |-> c] : c \in FeatureCoords}

SeqsUpTo(S, n) == UNION {[1..k -> S] : k \in 0..n}

\* lt>latMin && lt<latMax && lng>lonMin && lng<lonMax
InsideBox(box, lng, lt) ==
  /\ lt > box.latMin /\ lt < box.latMax
  /\ lng > box.lonMin /\ lng < box.lonMax

\* "filter + render": the hits of variant "filter"
filterHits(lat, lon, feats) ==
  LET box == boundingBox(lat, lon, DefaultRadius)
      keep(f) == LET lng == f.coordinates[1]
                     lt  == f.coordinates[2]
                 IN  /\ InsideBox(box, lng, lt)
                     /\ haversine(lat, lon, lt, lng) <= FilterRadius
  IN  SelectSeq(feats, keep)

\* const hits = geojson.features: the hits of variant "all"
allHits(feats) == feats

CoordsOf(fs) == [k \in 1..Len(fs) |-> fs[k].coordinates]

\* an error callback that falls back to a default centre and draws the map
onLocationErrorFallback == [alert |-> TRUE, map |-> TRUE]

\* the error callback () => alert(...)
onLocationError == [alert |-> TRUE, map |-> FALSE]

FrontIdle ==
  /\ variant = "none" /\ fpc = "idle" /\ geojson = <<>> /\ viewer = <<>>
  /\ mapCreated = FALSE /\ viewerMarker = <<>> /\ cards = <<>>
  /\ markers = <<>> /\ alerted = FALSE

InitFront ==
  /\ variant \in {"filter", "all"}
  /\ fpc = "start" /\ geojson = <<>> /\ viewer = <<>>
  /\ mapCreated = FALSE /\ viewerMarker = <<>> /\ cards = <<>>
  /\ markers = <<>> /\ alerted = FALSE

\* await fetch("stores.geojson").then(r => r.json()), then
\* navigator.geolocation.getCurrentPosition(success, error)
FetchOk ==
  /\ fpc = "start"
  /\ \E fs \in SeqsUpTo(Features, MaxFeatures) : geojson' = fs
  /\ fpc' = "locating"
  /\ UNCHANGED <<variant, viewer, mapCreated, viewerMarker, cards, markers, alerted>>
  /\ UNCHANGED <<geoVars, batchVars>>

\* the fetch rejects: run() ends before the location is requested
FetchFail ==
  /\ fpc = "start"
  /\ fpc' = "fetchFailed"
  /\ UNCHANGED <<variant, geojson, viewer, mapCreated, viewerMarker, cards,
                 markers, alerted>>
  /\ UNCHANGED <<geoVars, batchVars>>

\* the success callback
LocationOk ==
  /\ fpc = "locating"
  /\ \E v \in Viewers :
       LET lat == v[1]
           lon == v[2]
       IN  /\ viewer' = v
           /\ mapCreated' = TRUE
           /\ viewerMarker' = <<lon, lat>>
           /\ IF variant = "filter"
                THEN LET hits == filterHits(lat, lon, geojson)
                     IN  /\ cards' = hits
                         /\ markers' = CoordsOf(hits)
                         /\ fpc' = "rendered"
                ELSE /\ fpc' = "mapLoading"
                     /\ UNCHANGED <<cards, markers>>
  /\ UNCHANGED <<variant, geojson, alerted>>
  /\ UNCHANGED <<geoVars, batchVars>>

\* map.on("load", ...) of variant "all"
MapLoad ==
  /\ fpc = "mapLoading"
  /\ LET hits == allHits(geojson)
     IN  /\ cards' = hits
         /\ markers' = CoordsOf(hits)
  /\ fpc' = "rendered"
  /\ UNCHANGED <<variant, geojson, viewer, mapCreated, viewerMarker, alerted>>
  /\ UNCHANGED <<geoVars, batchVars>>

\* the error callback
LocationError ==
  /\ fpc = "locating"
  /\ alerted' = onLocationError.alert
  /\ mapCreated' = onLocationError.map
  /\ fpc' = "noLocation"
  /\ UNCHANGED <<variant, geojson, viewer, viewerMarker, cards, markers>>
  /\ UNCHANGED <<geoVars, batchVars>>

\* ==========================================================================
\* Batch job fetchSales.mjs
\* ==========================================================================
\* number of entries of LOCATIONS, length of a places result, largest place id
NumLocations == 2
MaxResults == 2
MaxId == 2

\* a missing or empty id (falsy in `p.id && ...`)
NoId == 0
\* a missing websiteUri
NoUri == ""

PlaceIds == 0..MaxId
Uris == {NoUri, "u", "v"}
Place == [id : PlaceIds, websiteUri : Uris]
NoPlace == [id |-> NoId, websiteUri |-> NoUri]

\* what the places service can answer: non-OK, or OK with a list of places.
\* The single-centre job's field mask asks for no id.
PlacesOf(j) == IF j = "multi" THEN Place ELSE {p \in Place : p.id = NoId}

PlacesResponses(j) ==
  {[ok |-> FALSE, places |-> <<>>]}
    \cup {[ok |-> TRUE, places |-> L] : L \in SeqsUpTo(PlacesOf(j), MaxResults)}

\* what the classification call can do: reject, or resolve with output_text
Responses ==
  {"reject", "not json", "null", "5", "{sale:true}", "{sale:false}",
   "{sale:'false'}"}

OldFile == [state |-> "old", features |-> <<>>]

\* --- queryPlaces ------------------------------------------------------------
\* queryPlaces answering a non-OK response with an empty list
queryPlacesLenient(res) ==
  [threw |-> FALSE, places |-> IF res.ok THEN res.places ELSE <<>>]

\* if (!res.ok) throw ...; return (await res.json()).places ?? []
queryPlaces(res) ==
  IF ~res.ok THEN [threw |-> TRUE, places |-> <<>>]
  ELSE [threw |-> FALSE, places |-> res.places]

\* --- the Map byId -------------------------------------------------------------
MapHas(m, id) == \E k \in 1..Len(m) : m[k].id = id

MapSet(m, p) ==
  IF MapHas(m, p.id)
    THEN [k \in 1..Len(m) |-> IF m[k].id = p.id THEN p ELSE m[k]]
    ELSE Append(m, p)

\* the guard without the has() test: the last occurrence wins
DedupGuardNoHas(m, p) == p.id # NoId

\* the guard without the id test
DedupGuardNoId(m, p) == ~MapHas(m, p.id)

\* p.id && !byId.has(p.id)
DedupGuard(m, p) == p.id # NoId /\ ~MapHas(m, p.id)

\* for (const p of places) if (...) byId.set(p.id, p)
RECURSIVE Collect(_, _)
Collect(m, L) ==
  IF L = <<>> THEN m
  ELSE Collect(IF DedupGuard(m, Head(L)) THEN MapSet(m, Head(L)) ELSE m, Tail(L))

\* --- analyzeSite and the body of the analysis loop ---------------------------
\* JSON.parse(resp.output_text.trim())
JSONparse(txt) ==
  CASE txt = "not json"       -> [threw |-> TRUE,  kind |-> "none",   sale |-> "none"]
    [] txt = "null"           -> [threw |-> FALSE, kind |-> "null",   sale |-> "none"]
    [] txt = "5"              -> [threw |-> FALSE, kind |-> "number", sale |-> "none"]
    [] txt = "{sale:true}"    -> [threw |-> FALSE, kind |-> "object", sale |-> "true"]
    [] txt = "{sale:false}"   -> [threw |-> FALSE, kind |-> "object", sale |-> "false"]
    [] txt = "{sale:'false'}" -> [threw |-> FALSE, kind |-> "object", sale |-> "string"]

\* analyzeSite(url): rejects when the call rejects, else the parsed value, or
\* { sale: false } when JSON.parse throws
analyzeSite(resp) ==
  IF resp = "reject" THEN [threw |-> TRUE, kind |-> "none", sale |-> "none"]
  ELSE LET v == JSONparse(resp)
       IN  IF v.threw THEN [threw |-> FALSE, kind |-> "object", sale |-> "false"]
           ELSE v

\* if (info.sale !== false)
SaleTestNotFalse(info) == info.sale # "false"

\* if (info.sale): a non-empty string is truthy
SaleTest(info) == info.sale \in {"true", "string"}

\* try { info = await analyzeSite(...); if (info.sale) push } catch { log }:
\* "emit", "skip", or "error" when analyzeSite rejected or info is null
storeOutcome(resp) ==
  LET info == analyzeSite(resp)
  IN  IF info.threw \/ info.kind = "null" THEN "error"
      ELSE IF SaleTest(info) THEN "emit" ELSE "skip"

\* no catch block: the rejection ends the job
AfterStoreErrorCrash == "crashed"

\* where the loop goes after the catch block
AfterStoreError == "analyse"

\* analyzeSite called without await
NoAwaitAnalyze == "analyse"

\* where the job is while analyzeSite is awaited
AwaitAnalyze == "awaitAnalyze"

\* the list the analysis loop walks: byId.values(), or places
Stores == IF job = "multi" THEN byId ELSE places

NumCenters == IF job = "multi" THEN NumLocations ELSE 1

\* --- history ------------------------------------------------------------------
SeenIds(L) == {L[k].id : k \in 1..Len(L)} \ {NoId}

FirstWith(L, id) ==
  L[CHOOSE k \in 1..Len(L) : L[k].id = id /\ \A j \in 1..(k - 1) : L[j].id # id]

FirstSeenAfter(fs, L) ==
  [id \in 1..MaxId |->
     IF fs[id] # NoPlace THEN fs[id]
     ELSE IF id \in SeenIds(L) THEN FirstWith(L, id)
     ELSE NoPlace]

Shadows(fs, L) ==
  \E k \in 1..Len(L) :
    /\ L[k].id # NoId
    /\ LET first == FirstSeenAfter(fs, L)[L[k].id] IN first # L[k]

Anonymous(L) ==
  \E k \in 1..Len(L) : L[k].id = NoId /\ L[k].websiteUri # NoUri

BatchIdle ==
  /\ job = "none" /\ pc = "idle" /\ ci = 0 /\ queries = 0
  /\ byId = <<>> /\ places = <<>> /\ idx = 0 /\ features = <<>> /\ calls = <<>>
  /\ inflight = 0 /\ writes = 0 /\ file = OldFile /\ httpFailed = FALSE
  /\ firstSeen = [id \in 1..MaxId |-> NoPlace] /\ shadowed = FALSE
  /\ anonSeen = FALSE

InitBatch ==
  /\ job \in {"multi", "single"}
  /\ pc = "collect" /\ ci = 1 /\ queries = 0
  /\ byId = <<>> /\ places = <<>> /\ idx = 1 /\ features = <<>> /\ calls = <<>>
  /\ inflight = 0 /\ writes = 0 /\ file = OldFile /\ httpFailed = FALSE
  /\ firstSeen = [id \in 1..MaxId |-> NoPlace] /\ shadowed = FALSE
  /\ anonSeen = FALSE

\* await queryPlaces(loc): the request is sent
IssueQuery ==
  /\ pc = "collect"
  /\ ci <= NumCenters
  /\ queries' = queries + 1
  /\ inflight' = inflight + 1
  /\ pc' = "awaitPlaces"
  /\ UNCHANGED <<job, ci, byId, places, idx, features, calls, writes,
                 file, httpFailed, firstSeen, shadowed, anonSeen>>
  /\ UNCHANGED <<geoVars, frontVars>>

\* the places response arrives; the multi-point job merges it into byId, the
\* single-centre job keeps it as places
ResolveQuery ==
  /\ pc = "awaitPlaces"
  /\ \E res \in PlacesResponses(job) :
       LET q == queryPlaces(res)
       IN  /\ httpFailed' = (httpFailed \/ ~res.ok)
           /\ IF q.threw
                THEN /\ pc' = "aborted"
                     /\ UNCHANGED <<ci, byId, places, firstSeen, shadowed,
                                    anonSeen>>
                ELSE /\ ci' = ci + 1
                     /\ pc' = IF ci + 1 <= NumCenters THEN "collect" ELSE "analyse"
                     /\ IF job = "multi"
                          THEN /\ byId' = Collect(byId, q.places)
                               /\ firstSeen' = FirstSeenAfter(firstSeen, res.places)
                               /\ shadowed' = (shadowed \/ Shadows(firstSeen, res.places))
                               /\ anonSeen' = (anonSeen \/ Anonymous(res.places))
                               /\ UNCHANGED places
                          ELSE /\ places' = q.places
                               /\ UNCHANGED <<byId, firstSeen, shadowed,
                                              anonSeen>>
  /\ inflight' = inflight - 1
  /\ UNCHANGED <<job, queries, idx, features, calls, writes, file>>
  /\ UNCHANGED <<geoVars, frontVars>>

\* if (!p.websiteUri) continue
SkipStore ==
  /\ pc = "analyse"
  /\ idx <= Len(Stores)
  /\ Stores[idx].websiteUri = NoUri
  /\ idx' = idx + 1
  /\ UNCHANGED <<job, pc, ci, queries, byId, places, features, calls,
                 inflight, writes, file, httpFailed, firstSeen, shadowed, anonSeen>>
  /\ UNCHANGED <<geoVars, frontVars>>

\* await analyzeSite(p.websiteUri): the request is sent
IssueAnalyze ==
  /\ pc = "analyse"
  /\ idx <= Len(Stores)
  /\ Stores[idx].websiteUri # NoUri
  /\ calls' = Append(calls, [store |-> idx, url |-> Stores[idx].websiteUri,
                             result |-> "pending"])
  /\ inflight' = inflight + 1
  /\ pc' = AwaitAnalyze
  /\ UNCHANGED <<job, ci, queries, byId, places, idx, features, writes,
                 file, httpFailed, firstSeen, shadowed, anonSeen>>
  /\ UNCHANGED <<geoVars, frontVars>>

\* the classification call resolves or rejects; the rest of the loop body runs
ResolveAnalyze ==
  /\ pc = "awaitAnalyze"
  /\ \E resp \in Responses :
       LET out == storeOutcome(resp)
       IN  /\ calls' = [calls EXCEPT ![Len(calls)].result = resp]
           /\ features' = IF out = "emit"
                            THEN Append(features,
                                        [store |-> idx,
                                         website |-> Stores[idx].websiteUri])
                            ELSE features
           /\ pc' = IF out = "error" THEN AfterStoreError ELSE "analyse"
  /\ idx' = idx + 1
  /\ inflight' = inflight - 1
  /\ UNCHANGED <<job, ci, queries, byId, places, writes, file,
                 httpFailed, firstSeen, shadowed, anonSeen>>
  /\ UNCHANGED <<geoVars, frontVars>>

\* the loop is over: await fs.writeFile('stores.geojson', ...)
IssueWrite ==
  /\ pc = "analyse"
  /\ idx > Len(Stores)
  /\ writes' = writes + 1
  /\ inflight' = inflight + 1
  /\ pc' = "awaitWrite"
  /\ UNCHANGED <<job, ci, queries, byId, places, idx, features, calls,
                 file, httpFailed, firstSeen, shadowed, anonSeen>>
  /\ UNCHANGED <<geoVars, frontVars>>

\* the write resolves, or rejects leaving the file as it was or truncated
ResolveWrite ==
  /\ pc = "awaitWrite"
  /\ \/ /\ file' = [state |-> "written", features |-> features]
        /\ pc' = "done"
     \/ /\ file' \in {file, [state |-> "truncated", features |-> <<>>]}
        /\ pc' = "writeFailed"
  /\ inflight' = inflight - 1
  /\ UNCHANGED <<job, ci, queries, byId, places, idx, features, calls,
                 writes, httpFailed, firstSeen, shadowed, anonSeen>>
  /\ UNCHANGED <<geoVars, frontVars>>

\* ==========================================================================
\* Specifications
\* ==========================================================================
InitG == InitGeo /\ FrontIdle /\ BatchIdle

InitF == GeoIdle /\ InitFront /\ BatchIdle

InitB == GeoIdle /\ FrontIdle /\ InitBatch

NextGeo == Measure

NextFront ==
  \/ FetchOk
  \/ FetchFail
  \/ LocationOk
  \/ MapLoad
  \/ LocationError

NextBatch ==
  \/ IssueQuery
  \/ ResolveQuery
  \/ SkipStore
  \/ IssueAnalyze
  \/ ResolveAnalyze
  \/ IssueWrite
  \/ ResolveWrite

SpecGeo == InitG /\ [][NextGeo]_vars

SpecFront == InitF /\ [][NextFront]_vars

SpecBatch == InitB /\ [][NextBatch]_vars

\* every awaited call resolves or rejects, and the event loop runs the
\* continuation
FairSpecBatch == SpecBatch /\ WF_vars(NextBatch)

\* ==========================================================================
\* Properties
\* ==========================================================================
\* positions of the stores that have a website
WebStores == {k \in 1..Len(Stores) : Stores[k].websiteUri # NoUri}

FeatureStores(fs) == {fs[k].store : k \in 1..Len(fs)}

\* no feature for store k, neither pushed nor written
NoFeatureFor(k) ==
  k \notin FeatureStores(features) /\ k \notin FeatureStores(file.features)

\* classification responses that are not a JSON object
Malformed == {"not json", "null", "5"}

\* C1: in the multi-point job the merged map holds exactly one entry for every
\* non-empty place id returned so far, and the entry is the place object of
\* the id's first occurrence in query order; later occurrences change nothing.
C1_FirstOccurrenceWins ==
  job = "multi" =>
    /\ \A id \in 1..MaxId : (firstSeen[id] # NoPlace) <=> MapHas(byId, id)
    /\ \A k \in 1..Len(byId) :
         /\ byId[k].id \in 1..MaxId
         /\ byId[k] = firstSeen[byId[k].id]
    /\ \A j, k \in 1..Len(byId) : j # k => byId[j].id # byId[k].id

\* the collect phase is over and some id came back a second time with a
\* different place object
C1_Witness ==
  job = "multi" /\ pc = "analyse" /\ shadowed /\ Len(byId) >= 1

\* C2: the proximity filter of variant "filter" renders exactly the features
\* strictly inside the bounding box at the filter radius (10,000 m) whose
\* haversine distance from the viewer is at most that radius.
C2_BoxAtFilterRadius ==
  (variant = "filter" /\ fpc = "rendered") =>
    LET lat == viewer[1]
        lon == viewer[2]
        box == boundingBox(lat, lon, FilterRadius)
        claimed(f) == /\ InsideBox(box, f.coordinates[1], f.coordinates[2])
                      /\ haversine(lat, lon, f.coordinates[2], f.coordinates[1])
                           <= FilterRadius
    IN  cards = SelectSeq(geojson, claimed)

\* C3: once the places queries have succeeded the job issues exactly one
\* classification call per store with a website, in store order, whatever
\* calls reject, and then issues the file write exactly once; a store whose
\* call rejected has no feature.
C3_Safety ==
  /\ writes <= 1
  /\ writes = 1 =>
       /\ Len(calls) = Cardinality(WebStores)
       /\ {calls[i].store : i \in 1..Len(calls)} = WebStores
       /\ \A i, j \in 1..Len(calls) : i < j => calls[i].store < calls[j].store
  /\ \A i \in 1..Len(calls) :
       calls[i].result = "reject" => NoFeatureFor(calls[i].store)

\* C3, with the liveness part: from the start of the analysis loop the job
\* reaches the point where the write has been issued once.
C3_EveryStoreThenWrite == []C3_Safety /\ ((pc = "analyse") ~> (writes = 1))

\* the file was written after a call rejected and a later one found a sale
C3_Witness ==
  /\ pc = "done"
  /\ \E i, j \in 1..Len(calls) :
       i < j /\ calls[i].result = "reject" /\ calls[j].result = "{sale:true}"

\* C4: a classification response that is not a JSON object (not JSON, null,
\* or a non-object) does not end the job: the store gets no feature and the
\* loop moves past it.
C4_MalformedIsNoSale ==
  \A i \in 1..Len(calls) :
    calls[i].result \in Malformed =>
      /\ NoFeatureFor(calls[i].store)
      /\ idx > calls[i].store
      /\ pc \in {"analyse", "awaitAnalyze", "awaitWrite", "done", "writeFailed"}

\* a null response and a later malformed one were seen and the file was written
C4_Witness ==
  /\ file.state = "written"
  /\ \E i, j \in 1..Len(calls) :
       /\ i < j
       /\ calls[i].result = "null"
       /\ calls[j].result \in {"not json", "5"}

\* C5: after a non-OK places response no places query and no classification
\* call is issued (none at all was issued before it either) and the file is
\* never written.
C5_PlacesFailureAborts ==
  httpFailed =>
    /\ pc = "aborted"
    /\ queries = ci
    /\ inflight = 0
    /\ calls = <<>>
    /\ writes = 0
    /\ file = OldFile

\* the second centre's query failed while a store with a website was waiting
C5_Witness ==
  /\ httpFailed /\ job = "multi" /\ ci = 2
  /\ \E k \in 1..Len(byId) : byId[k].websiteUri # NoUri

\* C6: the written file has a feature for a store exactly when the store has
\* a website and its response parsed to an object whose sale flag is the
\* boolean true.
C6_FeatureIffBooleanTrue ==
  file.state = "written" =>
    \A k \in 1..Len(Stores) :
      (k \in FeatureStores(file.features)) <=>
        /\ Stores[k].websiteUri # NoUri
        /\ \E i \in 1..Len(calls) :
             calls[i].store = k /\ calls[i].result = "{sale:true}"

\* C7: after a failed location request the alert is shown and there is no
\* map, viewer marker, store marker or card; those exist only after a
\* successful location result.
C7_NoRenderingWithoutLocation ==
  /\ fpc = "noLocation" => alerted
  /\ alerted => /\ ~mapCreated /\ viewerMarker = <<>>
                /\ markers = <<>> /\ cards = <<>>
  /\ (mapCreated \/ viewerMarker # <<>> \/ markers # <<>> \/ cards # <<>>)
       => viewer # <<>>

\* the location request failed with features loaded
C7_Witness == alerted /\ fpc = "noLocation" /\ Len(geojson) >= 1

\* C8: at most one external call is outstanding; only the latest
\* classification call can be pending, and none is once the write is issued.
C8_OneCallAtATime ==
  /\ inflight <= 1
  /\ \A i \in 1..Len(calls) :
       calls[i].result = "pending" =>
         i = Len(calls) /\ pc = "awaitAnalyze" /\ writes = 0

\* the write is outstanding after two classification calls
C8_Witness == pc = "awaitWrite" /\ inflight = 1 /\ Len(calls) >= 2

\* C9: haversine(a, b) = haversine(b, a) and haversine(a, a) = 0.
C9_HaversineSymmetric ==
  gpc = "measured" => dAB = dBA /\ dAA = 0

\* two points of different latitude and longitude were measured
C9_Witness ==
  gpc = "measured" /\ ptA[1] # ptB[1] /\ ptA[2] # ptB[2] /\ dAB > 0

\* C10: in the multi-point job a place without an id never enters the merged
\* map, is never classified and gets no feature; classified stores have
\* non-empty, pairwise different ids.
C10_NoIdNeverMerged ==
  job = "multi" =>
    /\ \A k \in 1..Len(byId) : byId[k].id # NoId
    /\ \A i \in 1..Len(calls) : byId[calls[i].store].id # NoId
    /\ \A i, j \in 1..Len(calls) :
         i # j => byId[calls[i].store].id # byId[calls[j].store].id
    /\ \A k \in FeatureStores(features) \cup FeatureStores(file.features) :
         byId[k].id # NoId

\* a place with a website and no id was returned and the file was written
C10_Witness == job = "multi" /\ anonSeen /\ file.state = "written"

=============================================================================
